---- MODULE Spec2Model ----
(***************************************************************************)
(* Model of the dependency-aware plan executor of GenesisAgent             *)
(* (src/agent/genesis_agent.py): execute_plan, _execute_step,              *)
(* _group_by_dependencies and _substitute_references, together with the    *)
(* tool lookup of DynamicToolRegistry.get_tool and the remote call of      *)
(* RemoteTool.execute.                                                     *)
(*                                                                         *)
(* Step indices are 0-based as in the source; the step with index idx is   *)
(* plan_steps[idx + 1].                                                    *)
(***************************************************************************)
EXTENDS Integers, Sequences, FiniteSets, TLC

VARIABLES
    plan,               \* the argument of execute_plan
    pc,                 \* position of execute_plan
    plan_steps,         \* execute_plan: normalised step list
    levels,             \* _group_by_dependencies: local `levels`
    processed,          \* _group_by_dependencies: local `processed`
    dependency_levels,  \* execute_plan: value returned by the leveler
    level_no,           \* execute_plan: position of `for level in ...` (1-based)
    task_state,         \* per step: state of its _execute_step coroutine
    task_params,        \* per step: parameters after _substitute_references
    task_seen,          \* per step: keys of `previous_results` when it resolved
    task_result,        \* per step: value returned by tool.execute
    results,            \* execute_plan: local `results`
    tool_cache,         \* DynamicToolRegistry.tool_cache (tool ids)
    mcp_connections,    \* DynamicToolRegistry.mcp_connections (server -> connection)
    invocations,        \* per step: how many times tool.execute was entered
    connect_calls,      \* per server: how many times _connect_mcp was called
    memory_store,       \* ContextManager.memory_store (conversation -> context)
    clock,              \* the readings of datetime.now() taken so far
    response,           \* process_request: what it returned ("none": not yet)
    get_pc,             \* per get_tool call: its position in get_tool
    get_tool_id,        \* per get_tool call: its tool_id argument
    connection_lock,    \* DynamicToolRegistry.connection_lock: its holder, 0 if free
    tool_connection,    \* per get_tool call: connection of the RemoteTool it made
    tools,              \* EnhancedGenesisAgent.execute_plan: the `tools` argument
    step_no,            \* EnhancedGenesisAgent.execute_plan: position of `for step`
    enhanced_store,     \* EnhancedContextManager.memory_store
    entity_call         \* the last call made to the EnhancedContextManager

\* the state of GenesisAgent.execute_plan and of the registry it uses
execVars == <<plan, pc, plan_steps, levels, processed, dependency_levels, level_no,
              task_state, task_params, task_seen, task_result, results,
              tool_cache, mcp_connections>>

\* the calls counted along an execution
countVars == <<invocations, connect_calls>>

\* the state of GenesisAgent.process_request and of its ContextManager
requestVars == <<memory_store, clock, response>>

\* the state of the concurrent calls of DynamicToolRegistry.get_tool
registryVars == <<get_pc, get_tool_id, connection_lock, tool_connection>>

\* the further state of EnhancedGenesisAgent.execute_plan
seqVars == <<tools, step_no>>

\* the state of the EnhancedContextManager and of its callers
entityVars == <<enhanced_store, entity_call>>

vars == <<execVars, countVars, requestVars, registryVars, seqVars, entityVars>>

(***************************************************************************)
(* Bounds.                                                                 *)
(***************************************************************************)
MaxSteps == 3
MaxScans == 5
MaxDepth == 2
MaxCallers == 3
MaxUpdates == 53
MaxOther == 1
MaxTracks == 5
MaxEarly == 3

(***************************************************************************)
(* JSON values.  Every value is a record of one shape, so that any two     *)
(* values can be compared: t is the Python type, s the text of a str, n    *)
(* the number of an int, keys/items the keys and values of a dict (in      *)
(* insertion order), items the elements of a list.                         *)
(***************************************************************************)
JStr(str) == [t |-> "str", s |-> str, n |-> 0, keys |-> <<>>, items |-> <<>>]
JNum(num) == [t |-> "int", s |-> "", n |-> num, keys |-> <<>>, items |-> <<>>]
JDict(ks, vs) == [t |-> "dict", s |-> "", n |-> 0, keys |-> ks, items |-> vs]
JList(vs) == [t |-> "list", s |-> "", n |-> 0, keys |-> <<>>, items |-> vs]
JBool(b) == [t |-> "bool", s |-> "", n |-> IF b THEN 1 ELSE 0, keys |-> <<>>, items |-> <<>>]
JNull == [t |-> "null", s |-> "", n |-> 0, keys |-> <<>>, items |-> <<>>]

Range(seq) == {seq[k] : k \in DOMAIN seq}

\* dict.get(key, default) on a JSON dict
DictGet(obj, key, default) ==
    IF \E k \in DOMAIN obj.keys : obj.keys[k] = key
    THEN obj.items[CHOOSE k \in DOMAIN obj.keys : obj.keys[k] = key]
    ELSE default

\* the empty Python dict used for `results = {}`
EmptyMap == [key \in {} |-> JNum(0)]

\* results[key] = value
MapSet(map, key, value) ==
    [k \in DOMAIN map \cup {key} |-> IF k = key THEN value ELSE map[k]]

\* f"step_{idx}"
StepKey(idx) == "step_" \o ToString(idx)

(***************************************************************************)
(* _substitute_references (genesis_agent.py 202-215).                       *)
(***************************************************************************)
\* obj.startswith("$")
StartsWithSigil(str) == Len(str) >= 1 /\ SubSeq(str, 1, 1) = "$"

\* StripSigil that keeps the sigil: the reference is looked up as "$key"
StripSigilKept(str) == str

\* obj[1:]
StripSigil(str) == SubSeq(str, 2, Len(str))

\* substitute on a string alone
substituteString(obj, res) ==
    IF obj.t = "str" /\ StartsWithSigil(obj.s) /\ StripSigil(obj.s) \in DOMAIN res
    THEN res[StripSigil(obj.s)] ELSE obj

\* substitute without the recursion: only the values of the top mapping are
\* looked at, lists and nested mappings are returned as they are
substituteShallow(obj, res) ==
    IF obj.t = "dict"
    THEN JDict(obj.keys, [k \in DOMAIN obj.items |-> substituteString(obj.items[k], res)])
    ELSE substituteString(obj, res)

\* the key of a mapping when keys are resolved like values: a key "$<key>"
\* that names a stored string becomes that string
substituteKey(key, res) ==
    IF StartsWithSigil(key) /\ StripSigil(key) \in DOMAIN res
       /\ res[StripSigil(key)].t = "str"
    THEN res[StripSigil(key)].s ELSE key

\* substitute with {substitute(k): substitute(v) ...}: keys are resolved too
RECURSIVE substituteKeys(_, _)
substituteKeys(obj, res) ==
    IF obj.t = "str" /\ StartsWithSigil(obj.s)
    THEN IF StripSigil(obj.s) \in DOMAIN res THEN res[StripSigil(obj.s)] ELSE obj
    ELSE IF obj.t = "dict"
    THEN JDict([k \in DOMAIN obj.keys |-> substituteKey(obj.keys[k], res)],
               [k \in DOMAIN obj.items |-> substituteKeys(obj.items[k], res)])
    ELSE IF obj.t = "list"
    THEN JList([k \in DOMAIN obj.items |-> substituteKeys(obj.items[k], res)])
    ELSE obj

\* substitute that looks a substituted-in string up once more
RECURSIVE substituteRescan(_, _)
substituteRescan(obj, res) ==
    IF obj.t = "str" /\ StartsWithSigil(obj.s)
    THEN IF StripSigil(obj.s) \in DOMAIN res
         THEN substituteString(res[StripSigil(obj.s)], res) ELSE obj
    ELSE IF obj.t = "dict"
    THEN JDict(obj.keys, [k \in DOMAIN obj.items |-> substituteRescan(obj.items[k], res)])
    ELSE IF obj.t = "list"
    THEN JList([k \in DOMAIN obj.items |-> substituteRescan(obj.items[k], res)])
    ELSE obj

\* substitute with results.get(ref, ref): a miss yields the bare key
RECURSIVE substituteMissBare(_, _)
substituteMissBare(obj, res) ==
    IF obj.t = "str" /\ StartsWithSigil(obj.s)
    THEN IF StripSigil(obj.s) \in DOMAIN res THEN res[StripSigil(obj.s)]
         ELSE JStr(StripSigil(obj.s))
    ELSE IF obj.t = "dict"
    THEN JDict(obj.keys, [k \in DOMAIN obj.items |-> substituteMissBare(obj.items[k], res)])
    ELSE IF obj.t = "list"
    THEN JList([k \in DOMAIN obj.items |-> substituteMissBare(obj.items[k], res)])
    ELSE obj

RECURSIVE substitute(_, _)
substitute(obj, res) ==
    IF obj.t = "str" /\ StartsWithSigil(obj.s)
    THEN IF StripSigil(obj.s) \in DOMAIN res THEN res[StripSigil(obj.s)] ELSE obj
    ELSE IF obj.t = "dict"
    THEN JDict(obj.keys, [k \in DOMAIN obj.items |-> substitute(obj.items[k], res)])
    ELSE IF obj.t = "list"
    THEN JList([k \in DOMAIN obj.items |-> substitute(obj.items[k], res)])
    ELSE obj

(***************************************************************************)
(* _group_by_dependencies (genesis_agent.py 180-200).                       *)
(***************************************************************************)
\* all(dep in processed for dep in deps)
DepsProcessed(step, done) ==
    \A k \in DOMAIN step.depends_on : step.depends_on[k] \in done

\* Eligible with `any` in place of `all`: one processed dependency is enough
EligibleAny(steps, done, idx) ==
    /\ idx \notin done
    /\ \/ steps[idx + 1].depends_on = <<>>
       \/ \E k \in DOMAIN steps[idx + 1].depends_on :
              steps[idx + 1].depends_on[k] \in done

\* Eligible without the `if idx in processed: continue` of lines 189-190
EligibleNoSkip(steps, done, idx) == DepsProcessed(steps[idx + 1], done)

\* the test that lets the scan append idx to current_level
Eligible(steps, done, idx) ==
    idx \notin done /\ DepsProcessed(steps[idx + 1], done)

\* ScanLevel with a `break` after the first append: one step per level
ScanLevelFirst(steps, done) ==
    LET all == SelectSeq([k \in 1..Len(steps) |-> k - 1],
                         LAMBDA idx : Eligible(steps, done, idx))
    IN  IF all = <<>> THEN <<>> ELSE <<all[1]>>

\* ScanLevel that collects the eligible steps in a set and lists the set from
\* its largest member down
ScanLevelUnordered(steps, done) ==
    LET all == SelectSeq([k \in 1..Len(steps) |-> k - 1],
                         LAMBDA idx : Eligible(steps, done, idx))
    IN  [k \in 1..Len(all) |-> all[Len(all) + 1 - k]]

\* one pass of `for idx, step in enumerate(plan)`: the current_level it builds
ScanLevel(steps, done) ==
    SelectSeq([k \in 1..Len(steps) |-> k - 1],
              LAMBDA idx : Eligible(steps, done, idx))

(***************************************************************************)
(* The tool registry and the remote tools.                                 *)
(***************************************************************************)
\* manifest["tools"]: the tool ids the registry knows
Manifest == {"A", "B", "C"}

\* manifest["tools"][tool_id]["server"]
ServerOf(tool_id) ==
    IF tool_id \in {"A", "C"} THEN "stock_data" ELSE "technical_analysis"

\* manifest["servers"]: the server names
Servers == {"stock_data", "technical_analysis"}

\* self.mcp_connections = {}
NoConnections == [server \in {} |-> 0]

\* lines 37 and 49: the tool is not cached and its server has no connection
NeedsConnect(tool_id) ==
    tool_id \notin tool_cache /\ ServerOf(tool_id) \notin DOMAIN mcp_connections

\* the call of _connect_mcp is counted
CountConnect(server) == [connect_calls EXCEPT ![server] = @ + 1]

\* line 50: the MCPClient made by this call of _connect_mcp (named by the
\* number of the call) is stored under the server name
Connect(server) == MapSet(mcp_connections, server, connect_calls[server] + 1)

\* What the server answers when the call succeeds: tool A answers {"v": 5},
\* tools B and C echo their x argument ({} when there is none).
ToolReturn(tool_id, parameters) ==
    IF tool_id = "A"
    THEN JDict(<<"v">>, <<JNum(5)>>)
    ELSE DictGet(parameters, "x", JDict(<<>>, <<>>))

(***************************************************************************)
(* ContextManager (context_manager.py), with the in-memory store that      *)
(* GenesisAgent() builds.  datetime.now() is a clock reading.              *)
(***************************************************************************)
\* the conversation ids
Conversations == {"c1", "c2"}

\* line 58: the number of messages a conversation keeps
HistoryLimit == 50

\* self.memory_store = {}
NoContexts == [cid \in {} |-> 0]

\* _hash_message(query): a digest of the query
HashMessage(query) == "sha256:" \o query

\* get_context, lines 29-43: the stored context (a stored context is a
\* non-empty dict), or an empty context that is not stored
get_context(store, cid, now) ==
    IF cid \in DOMAIN store THEN store[cid]
    ELSE [conversation_id |-> cid, messages |-> <<>>,
          created_at |-> now, last_updated |-> now]

\* KeepLast as messages[:50]: the oldest messages are the ones kept
KeepFirst(messages) ==
    IF Len(messages) > HistoryLimit
    THEN SubSeq(messages, 1, HistoryLimit) ELSE messages

\* lines 58-59: if len(messages) > 50: messages = messages[-50:]
KeepLast(messages) ==
    IF Len(messages) > HistoryLimit
    THEN SubSeq(messages, Len(messages) - HistoryLimit + 1, Len(messages))
    ELSE messages

\* update, lines 47-72: the store after update(cid, query, res) at time now
update(store, cid, query, res, now) ==
    LET context == get_context(store, cid, now)
        message == [timestamp |-> now, query |-> query, results |-> res,
                    hash |-> HashMessage(query)]
    IN  MapSet(store, cid,
               [context EXCEPT !.messages = KeepLast(Append(context.messages, message)),
                               !.last_updated = now])

(***************************************************************************)
(* EnhancedContextManager (enhanced_context_manager.py), with the          *)
(* in-memory store that EnhancedGenesisAgent() builds.  A context is a     *)
(* Python object: get_context hands out the stored object itself, so what  *)
(* a caller changes in it is changed in the store, while the default       *)
(* context of a conversation without one is a new object each time.        *)
(***************************************************************************)
\* Python's None
None == "None"

\* the entity values
Entities == {"AAPL", "MSFT"}

\* lines 42, 78, 323: deque(maxlen=10) of recent entities
RecentLimit == 10

\* lines 47, 97: deque(maxlen=20) of tools
ToolSequenceLimit == 20

\* context['entities']['entity_history'] = {}
NoHistory == [entity \in {} |-> 0]

\* get_context, lines 37-61: the default context (the parts update and
\* track_entity read or write)
DefaultContext(cid) ==
    [conversation_id |-> cid,
     messages |-> <<>>,
     last_entity |-> None,
     recent_entities |-> <<>>,
     entity_history |-> NoHistory,
     last_tool |-> None,
     tool_sequence |-> <<>>,
     interaction_count |-> 0]

\* get_context, lines 30-61
get_enhanced_context(store, cid) ==
    IF cid \in DOMAIN store THEN store[cid] ELSE DefaultContext(cid)

\* deque(items, maxlen=limit): the last `limit` items
Deque(items, limit) ==
    IF Len(items) > limit
    THEN SubSeq(items, Len(items) - limit + 1, Len(items)) ELSE items

\* deque.append on a deque(maxlen=limit)
DequeAppend(items, item, limit) == Deque(Append(Deque(items, limit), item), limit)

\* lines 120-134: the message is appended (a message is named by its query
\* and the top-level keys of its updates), the history is cut to its last
\* 50, the interaction is counted
RecordMessage(context, query, keys) ==
    [context EXCEPT
        !.messages = KeepLast(Append(@, [query |-> query, updates |-> keys,
                                         hash |-> HashMessage(query)])),
        !.interaction_count = @ + 1]

\* the top-level keys of a context handed to update as its `updates`
ContextKeys == {"conversation_id", "messages", "entities", "tools",
                "conversation", "metadata"}

\* update(cid, "", context), lines 65-147, as track_entity and add_message
\* call it: no key of a context is one update looks for, so only the
\* message is recorded, in the context get_context hands out (base), which
\* is then stored
UpdateWithContext(store, cid, base) ==
    MapSet(store, cid, RecordMessage(base, "", ContextKeys))

\* track_entity, lines 316-324: last_entity and recent_entities are set in
\* the context the caller holds
NoteEntity(context, entity) ==
    [context EXCEPT
        !.last_entity = entity,
        !.recent_entities = DequeAppend(@, entity, RecentLimit)]

\* track_entity, lines 327-336: the entity's record is made and counted
CountEntity(context, entity_type, entity) ==
    [context EXCEPT !.entity_history =
        MapSet(@, entity,
               [kind |-> "dict", type |-> entity_type,
                count |-> IF entity \in DOMAIN @ THEN @[entity].count + 1 ELSE 1])]

\* update, lines 74-99, with updates = {"last_entity": e, "last_tool": t}:
\* the entity is noted (once in recent_entities), the tool is added to the
\* list kept for the entity and to tool_sequence
NoteEntityAndTool(context, entity, tool) ==
    [context EXCEPT
        !.last_entity = entity,
        !.recent_entities =
            IF entity \in Range(Deque(@, RecentLimit)) THEN Deque(@, RecentLimit)
            ELSE DequeAppend(@, entity, RecentLimit),
        !.entity_history =
            MapSet(@, entity,
                   [kind |-> "list", type |-> "",
                    count |-> IF entity \in DOMAIN @ THEN @[entity].count + 1 ELSE 1]),
        !.last_tool = tool,
        !.tool_sequence = DequeAppend(@, tool, ToolSequenceLimit)]

(***************************************************************************)
(* Inputs.                                                                 *)
(***************************************************************************)
StepIdx == 0..(MaxSteps - 1)

\* the elements of a set of indices in ascending order
Ascending(S) ==
    CHOOSE f \in [1..Cardinality(S) -> S] :
        \A i, j \in 1..Cardinality(S) : i < j => f[i] < f[j]

NoParams == JDict(<<>>, <<>>)

\* plans for the leveler: every depends_on list over the step indices
LevelerSteps ==
    {[tool_id |-> "A", parameters |-> NoParams, depends_on |-> Ascending(S)] :
        S \in SUBSET StepIdx}

LevelerPlans == UNION {[1..n -> LevelerSteps] : n \in 0..MaxSteps}

\* plans for the executor: tools that exist or not, literal and referring
\* parameters, and dependencies on the first step or the first two steps
ExecCalls ==
    {<<"A", NoParams>>,
     <<"B", JDict(<<"x">>, <<JStr("$step_0")>>)>>,
     <<"B", JDict(<<"x">>, <<JStr("$step_1")>>)>>,
     <<"ghost", NoParams>>}

ExecDeps == {<<>>, <<0>>, <<0, 1>>}

ExecSteps ==
    {[tool_id |-> c[1], parameters |-> c[2], depends_on |-> d] :
        c \in ExecCalls, d \in ExecDeps}

ExecPlans == UNION {[1..n -> ExecSteps] : n \in 0..MaxSteps}

\* the argument of execute_plan: a list of steps, a dict with a 'steps' key
\* (holding the shorter plans), or anything else
PlanArgs ==
    {[kind |-> "list", steps |-> p] : p \in ExecPlans}
    \cup {[kind |-> "dict", steps |-> p] : p \in {q \in ExecPlans : Len(q) <= 2}}
    \cup {[kind |-> "other", steps |-> <<>>]}

\* scalars of a parameter tree: references that hit or miss, a reference to
\* the conversation context, a bare sigil, a plain string, a number, a
\* boolean, null
Leaves ==
    {JStr("$step_0"), JStr("$missing"), JStr("$context.conversation_id"),
     JStr("$"), JStr("lit"), JNum(1), JBool(TRUE), JNull}

\* parameter values nested up to depth d in mappings and lists
RECURSIVE Trees(_)
Trees(d) ==
    IF d = 0 THEN Leaves
    ELSE Trees(d - 1)
         \cup {JDict(<<"base">>, <<v>>) : v \in Trees(d - 1)}
         \cup {JDict(<<"$step_0">>, <<v>>) : v \in Trees(d - 1)}
         \cup {JList(<<v, JStr("$step_0")>>) : v \in Trees(d - 1)}

\* the parameters of a step: a mapping
StepParams == {JDict(<<"base">>, <<v>>) : v \in Trees(MaxDepth)}

\* the previous_results handed to _execute_step
ResultMaps ==
    {EmptyMap,
     MapSet(EmptyMap, "step_0", JDict(<<"price">>, <<JNum(100)>>)),
     MapSet(MapSet(EmptyMap, "step_0", JStr("$step_1")), "step_1", JNum(7)),
     MapSet(EmptyMap, "missing", JList(<<JNum(0)>>)),
     MapSet(MapSet(EmptyMap, "step_0", JDict(<<"ref">>, <<JStr("$missing")>>)),
            "missing", JNum(3))}

(***************************************************************************)
(* Initial states.                                                         *)
(***************************************************************************)
\* the conversation and the query of the request
RequestConversation == "c1"
RequestQuery == "query"

\* the store of a manager that has seen one earlier request of the conversation
StoredBefore == update(NoContexts, RequestConversation, "earlier", EmptyMap, 1)

\* process_request is at its call of execute_plan (line 38)
RequestStart ==
    /\ memory_store = StoredBefore
    /\ clock = 1
    /\ response = "none"

\* no request: a ContextManager as constructed
NoRequest ==
    /\ memory_store = NoContexts
    /\ clock = 0
    /\ response = "none"

\* the tasks that call get_tool
Callers == 1..MaxCallers

\* the tool ids get_tool is called with
ToolIds == Manifest \cup {"ghost"}

\* no call of get_tool
NoGetTool ==
    /\ get_pc = [c \in Callers |-> "idle"]
    /\ get_tool_id = [c \in Callers |-> "A"]
    /\ connection_lock = 0
    /\ tool_connection = [c \in Callers |-> 0]

\* an empty `tools` mapping
NoTools == [name \in {} |-> ""]

\* no call of EnhancedGenesisAgent.execute_plan
NoSequence ==
    /\ tools = NoTools
    /\ step_no = 0

\* the steps of an ExecutionPlan: a tool that is loaded or not, and
\* parameters as the LLM names them or as the tools name them
SeqSteps ==
    {[tool_name |-> name, parameters |-> params] :
        name \in {"stock_analyzer", "technical", "ghost"},
        params \in {JDict(<<"symbols">>, <<JList(<<JStr("AAPL"), JStr("MSFT")>>)>>),
                    JDict(<<"symbol">>, <<JStr("AAPL")>>)}}

SeqPlans == UNION {[1..n -> SeqSteps] : n \in 0..MaxSteps}

\* the `tools` argument: each loaded tool is a RemoteTool ("remote"), a dict
\* with a callable 'execute' ("dict") or an object without execute ("bare")
ToolMaps ==
    {[name \in {"stock_analyzer", "technical"} |->
         IF name = "stock_analyzer" THEN first ELSE second] :
        first \in {"remote", "dict"}, second \in {"remote", "bare"}}

\* an EnhancedContextManager as constructed
NoEntities ==
    /\ enhanced_store = NoContexts
    /\ entity_call = [op |-> "none", conversation_id |-> "", entity |-> ""]

\* nothing has been invoked or connected
NoCounts ==
    /\ invocations = [idx \in StepIdx |-> 0]
    /\ connect_calls = [server \in Servers |-> 0]

NoTasks ==
    /\ task_state = [idx \in StepIdx |-> "none"]
    /\ task_params = [idx \in StepIdx |-> NoParams]
    /\ task_seen = [idx \in StepIdx |-> {}]
    /\ task_result = [idx \in StepIdx |-> NoParams]

\* no plan is being executed
NoExecution ==
    /\ plan = [kind |-> "list", steps |-> <<>>]
    /\ plan_steps = <<>>
    /\ levels = <<>>
    /\ processed = {}
    /\ dependency_levels = <<>>
    /\ level_no = 0
    /\ NoTasks
    /\ results = EmptyMap
    /\ tool_cache = {}
    /\ mcp_connections = NoConnections
    /\ NoCounts

\* a ContextManager as constructed, before any call of update
InitContext ==
    /\ pc = "context"
    /\ NoExecution
    /\ NoRequest
    /\ NoGetTool
    /\ NoSequence
    /\ NoEntities

\* load_tools (dynamic_loader.py 28-32) has made one get_tool coroutine for
\* each of its tool ids and hands them to asyncio.gather
InitRegistry ==
    /\ pc = "load_tools"
    /\ NoExecution
    /\ NoRequest
    /\ get_pc = [c \in Callers |-> "called"]
    /\ get_tool_id \in [Callers -> ToolIds]
    /\ connection_lock = 0
    /\ tool_connection = [c \in Callers |-> 0]
    /\ NoSequence
    /\ NoEntities

\* EnhancedGenesisAgent.execute_plan(plan, tools) is called: lines 404-407
InitSeq ==
    /\ plan_steps \in SeqPlans
    /\ plan = [kind |-> "ExecutionPlan", steps |-> plan_steps]
    /\ pc = "loop"
    /\ levels = <<>>
    /\ processed = {}
    /\ dependency_levels = <<>>
    /\ level_no = 0
    /\ NoTasks
    /\ results = [steps_executed |-> <<>>, final_results |-> EmptyMap]
    /\ tool_cache = {}
    /\ mcp_connections = NoConnections
    /\ NoCounts
    /\ NoRequest
    /\ NoGetTool
    /\ tools \in ToolMaps
    /\ step_no = 1
    /\ NoEntities

\* an EnhancedContextManager as constructed, before any call
InitEntity ==
    /\ pc = "entities"
    /\ NoExecution
    /\ NoRequest
    /\ NoGetTool
    /\ NoSequence
    /\ NoEntities

\* execute_plan is called
Init ==
    /\ plan \in PlanArgs
    /\ pc = "start"
    /\ plan_steps = <<>>
    /\ levels = <<>>
    /\ processed = {}
    /\ dependency_levels = <<>>
    /\ level_no = 0
    /\ NoTasks
    /\ results = EmptyMap
    /\ tool_cache = {}
    /\ mcp_connections = NoConnections
    /\ NoCounts
    /\ RequestStart
    /\ NoGetTool
    /\ NoSequence
    /\ NoEntities

\* _group_by_dependencies is called on a list of steps
InitGroup ==
    /\ plan_steps \in LevelerPlans
    /\ plan = [kind |-> "list", steps |-> plan_steps]
    /\ pc = "group"
    /\ levels = <<>>
    /\ processed = {}
    /\ dependency_levels = <<>>
    /\ level_no = 0
    /\ NoTasks
    /\ results = EmptyMap
    /\ tool_cache = {}
    /\ mcp_connections = NoConnections
    /\ NoCounts
    /\ NoRequest
    /\ NoGetTool
    /\ NoSequence
    /\ NoEntities

\* _execute_step(step, previous_results) is called on one step
InitStep ==
    /\ \E tool \in {"B", "ghost"}, params \in StepParams :
           plan_steps = <<[tool_id |-> tool, parameters |-> params,
                           depends_on |-> <<>>]>>
    /\ plan = [kind |-> "list", steps |-> plan_steps]
    /\ pc = "step"
    /\ levels = <<(<<0>>)>>
    /\ processed = {0}
    /\ dependency_levels = <<(<<0>>)>>
    /\ level_no = 1
    /\ task_state = [idx \in StepIdx |-> IF idx = 0 THEN "created" ELSE "none"]
    /\ task_params = [idx \in StepIdx |-> NoParams]
    /\ task_seen = [idx \in StepIdx |-> {}]
    /\ task_result = [idx \in StepIdx |-> NoParams]
    /\ results \in ResultMaps
    /\ tool_cache = {}
    /\ mcp_connections = NoConnections
    /\ NoCounts
    /\ RequestStart
    /\ NoGetTool
    /\ NoSequence
    /\ NoEntities

(***************************************************************************)
(* execute_plan (genesis_agent.py 131-162).                                 *)
(***************************************************************************)
\* InvalidPlanResult as `return results`: the empty map
InvalidPlanEmpty == EmptyMap

\* the value returned for a plan of the wrong shape
InvalidPlanResult == MapSet(EmptyMap, "error", JStr("Invalid plan format"))

\* AcceptedShape with a truthiness test (`plan and isinstance(plan, list)`):
\* an empty plan is not accepted
AcceptedShapeTruthy(arg) == arg.kind \in {"list", "dict"} /\ arg.steps # <<>>

\* lines 136-139: the plan is a dict with a 'steps' key or a list
AcceptedShape(arg) == arg.kind \in {"list", "dict"}

\* lines 133-142: results = {}; accept a dict with 'steps' or a list
NormalizePlan ==
    /\ pc = "start"
    /\ AcceptedShape(plan)
    /\ plan_steps' = plan.steps
    /\ pc' = "group"
    /\ UNCHANGED <<plan, levels, processed, dependency_levels, level_no,
                   task_state, task_params, task_seen, task_result, results,
                   tool_cache, mcp_connections>>
    /\ UNCHANGED <<countVars, requestVars, registryVars, seqVars, entityVars>>

\* lines 140-142: any other shape is logged and answered with an error map
RejectPlan ==
    /\ pc = "start"
    /\ ~AcceptedShape(plan)
    /\ results' = InvalidPlanResult
    /\ pc' = "returned"
    /\ UNCHANGED <<plan, plan_steps, levels, processed, dependency_levels,
                   level_no, task_state, task_params, task_seen, task_result,
                   tool_cache, mcp_connections>>
    /\ UNCHANGED <<countVars, requestVars, registryVars, seqVars, entityVars>>

\* LoopContinues that counts the levels built instead of the steps placed
LoopContinuesByLevels == Len(levels) < Len(plan_steps)

\* line 185: while len(processed) < len(plan)
LoopContinues == Cardinality(processed) < Len(plan_steps)

\* _group_by_dependencies, lines 185-198: one iteration of the while loop
GroupScan ==
    /\ pc = "group"
    /\ LoopContinues
    /\ Len(levels) < MaxScans
    /\ levels' = Append(levels, ScanLevel(plan_steps, processed))
    /\ processed' = processed \cup Range(ScanLevel(plan_steps, processed))
    /\ UNCHANGED <<plan, pc, plan_steps, dependency_levels, level_no,
                   task_state, task_params, task_seen, task_result, results,
                   tool_cache, mcp_connections>>
    /\ UNCHANGED <<countVars, requestVars, registryVars, seqVars, entityVars>>

\* _group_by_dependencies, lines 185 and 200: the loop ends, levels is returned
GroupReturn ==
    /\ pc = "group"
    /\ ~LoopContinues
    /\ dependency_levels' = levels
    /\ level_no' = 1
    /\ pc' = "exec"
    /\ UNCHANGED <<plan, plan_steps, levels, processed,
                   task_state, task_params, task_seen, task_result, results,
                   tool_cache, mcp_connections>>
    /\ UNCHANGED <<countVars, requestVars, registryVars, seqVars, entityVars>>

\* _group_by_dependencies is called once more on the same plan, by a caller
\* that keeps the levels of the first call: lines 182-183 make fresh locals
GroupAgain ==
    /\ pc = "exec"
    /\ levels' = <<>>
    /\ processed' = {}
    /\ pc' = "group"
    /\ UNCHANGED <<plan, plan_steps, dependency_levels, level_no,
                   task_state, task_params, task_seen, task_result, results,
                   tool_cache, mcp_connections>>
    /\ UNCHANGED <<countVars, requestVars, registryVars, seqVars, entityVars>>

\* the steps of the level execute_plan is at
CurrentLevel ==
    IF level_no \in DOMAIN dependency_levels
    THEN dependency_levels[level_no] ELSE <<>>

\* lines 148-156: a coroutine per step of the level, handed to asyncio.gather
LaunchLevel ==
    /\ pc = "exec"
    /\ level_no \in DOMAIN dependency_levels
    /\ task_state' = [idx \in StepIdx |->
                        IF idx \in Range(CurrentLevel) THEN "created"
                        ELSE task_state[idx]]
    /\ pc' = "gather"
    /\ UNCHANGED <<plan, plan_steps, levels, processed, dependency_levels,
                   level_no, task_params, task_seen, task_result, results,
                   tool_cache, mcp_connections>>
    /\ UNCHANGED <<countVars, requestVars, registryVars, seqVars, entityVars>>

\* line 162: no level is left, results is returned
ReturnResults ==
    /\ pc = "exec"
    /\ level_no \notin DOMAIN dependency_levels
    /\ pc' = "returned"
    /\ UNCHANGED <<plan, plan_steps, levels, processed, dependency_levels,
                   level_no, task_state, task_params, task_seen, task_result,
                   results, tool_cache, mcp_connections>>
    /\ UNCHANGED <<countVars, requestVars, registryVars, seqVars, entityVars>>

(***************************************************************************)
(* _execute_step (genesis_agent.py 164-178) as an asyncio task.  The event *)
(* loop starts the tasks of a gather in the order they were passed; a task *)
(* runs without interruption up to the network call inside tool.execute,   *)
(* because get_tool (dynamic_loader.py 34-62) never waits: the lock is     *)
(* taken only between two points where no other task runs.                 *)
(***************************************************************************)
\* idx is the next task the event loop starts
NextToStart(idx) ==
    \E k \in DOMAIN CurrentLevel :
        /\ CurrentLevel[k] = idx
        /\ task_state[idx] = "created"
        /\ \A j \in 1..(k - 1) : task_state[CurrentLevel[j]] # "created"

\* StepInvoke that stores the resolved parameters back into the step
\* (step["parameters"] = ...)
StepInvokeInPlace(idx) ==
    /\ NextToStart(idx)
    /\ plan_steps[idx + 1].tool_id \in Manifest
    /\ task_params' = [task_params EXCEPT
           ![idx] = substitute(plan_steps[idx + 1].parameters, results)]
    /\ plan_steps' = [plan_steps EXCEPT
           ![idx + 1].parameters = substitute(plan_steps[idx + 1].parameters, results)]
    /\ task_seen' = [task_seen EXCEPT ![idx] = DOMAIN results]
    /\ mcp_connections' =
           IF NeedsConnect(plan_steps[idx + 1].tool_id)
           THEN Connect(ServerOf(plan_steps[idx + 1].tool_id))
           ELSE mcp_connections
    /\ connect_calls' =
           IF NeedsConnect(plan_steps[idx + 1].tool_id)
           THEN CountConnect(ServerOf(plan_steps[idx + 1].tool_id))
           ELSE connect_calls
    /\ invocations' = [invocations EXCEPT ![idx] = @ + 1]
    /\ tool_cache' = tool_cache \cup {plan_steps[idx + 1].tool_id}
    /\ task_state' = [task_state EXCEPT ![idx] = "running"]
    /\ UNCHANGED <<plan, pc, levels, processed, dependency_levels,
                   level_no, task_result, results>>
    /\ UNCHANGED <<requestVars, registryVars, seqVars, entityVars>>

\* lines 166-173 with a tool the manifest has: parameters are resolved, the
\* tool is looked up (cached, server connected), tool.execute is entered
StepInvoke(idx) ==
    /\ NextToStart(idx)
    /\ plan_steps[idx + 1].tool_id \in Manifest
    /\ task_params' = [task_params EXCEPT
           ![idx] = substitute(plan_steps[idx + 1].parameters, results)]
    /\ task_seen' = [task_seen EXCEPT ![idx] = DOMAIN results]
    /\ mcp_connections' =
           IF NeedsConnect(plan_steps[idx + 1].tool_id)
           THEN Connect(ServerOf(plan_steps[idx + 1].tool_id))
           ELSE mcp_connections
    /\ connect_calls' =
           IF NeedsConnect(plan_steps[idx + 1].tool_id)
           THEN CountConnect(ServerOf(plan_steps[idx + 1].tool_id))
           ELSE connect_calls
    /\ invocations' = [invocations EXCEPT ![idx] = @ + 1]
    /\ tool_cache' = tool_cache \cup {plan_steps[idx + 1].tool_id}
    /\ task_state' = [task_state EXCEPT ![idx] = "running"]
    /\ UNCHANGED <<plan, pc, plan_steps, levels, processed, dependency_levels,
                   level_no, task_result, results>>
    /\ UNCHANGED <<requestVars, registryVars, seqVars, entityVars>>

\* lines 166-173 with an unknown tool: get_tool raises ValueError
StepToolNotFound(idx) ==
    /\ NextToStart(idx)
    /\ plan_steps[idx + 1].tool_id \notin Manifest
    /\ task_params' = [task_params EXCEPT
           ![idx] = substitute(plan_steps[idx + 1].parameters, results)]
    /\ task_seen' = [task_seen EXCEPT ![idx] = DOMAIN results]
    /\ task_state' = [task_state EXCEPT ![idx] = "failed"]
    /\ UNCHANGED <<plan, pc, plan_steps, levels, processed, dependency_levels,
                   level_no, task_result, results, tool_cache, mcp_connections>>
    /\ UNCHANGED <<countVars, requestVars, registryVars, seqVars, entityVars>>

\* StepReturn that also writes its result into the shared results map
StepReturnShared(idx) ==
    /\ task_state[idx] = "running"
    /\ task_result' = [task_result EXCEPT
           ![idx] = ToolReturn(plan_steps[idx + 1].tool_id, task_params[idx])]
    /\ results' = MapSet(results, StepKey(idx),
                         ToolReturn(plan_steps[idx + 1].tool_id, task_params[idx]))
    /\ task_state' = [task_state EXCEPT ![idx] = "done"]
    /\ UNCHANGED <<plan, pc, plan_steps, levels, processed, dependency_levels,
                   level_no, task_params, task_seen, tool_cache, mcp_connections>>
    /\ UNCHANGED <<countVars, requestVars, registryVars, seqVars, entityVars>>

\* lines 176-178: the remote call answers and the step returns its result
StepReturn(idx) ==
    /\ task_state[idx] = "running"
    /\ task_result' = [task_result EXCEPT
           ![idx] = ToolReturn(plan_steps[idx + 1].tool_id, task_params[idx])]
    /\ task_state' = [task_state EXCEPT ![idx] = "done"]
    /\ UNCHANGED <<plan, pc, plan_steps, levels, processed, dependency_levels,
                   level_no, task_params, task_seen, results,
                   tool_cache, mcp_connections>>
    /\ UNCHANGED <<countVars, requestVars, registryVars, seqVars, entityVars>>

\* line 176: the remote call raises (HTTP error, MCP error, transport error)
StepRaise(idx) ==
    /\ task_state[idx] = "running"
    /\ task_state' = [task_state EXCEPT ![idx] = "failed"]
    /\ UNCHANGED <<plan, pc, plan_steps, levels, processed, dependency_levels,
                   level_no, task_params, task_seen, task_result, results,
                   tool_cache, mcp_connections>>
    /\ UNCHANGED <<countVars, requestVars, registryVars, seqVars, entityVars>>

(***************************************************************************)
(* The await of asyncio.gather and the store loop (lines 156-160).         *)
(***************************************************************************)
\* GatherDone as a wait for the first completed task only
GatherFirstDone == \E idx \in Range(CurrentLevel) : task_state[idx] = "done"

\* GatherDone as a wait with a timeout: whatever has been started counts
GatherAfterTimeout == \A idx \in Range(CurrentLevel) : task_state[idx] # "created"

\* gather has a value: every task of the level returned
GatherDone == \A idx \in Range(CurrentLevel) : task_state[idx] = "done"

\* ResultKey by position in the level (enumerate) instead of by step index
ResultKeyByPosition(level, k) == StepKey(k - 1)

\* the key under which the result at position k of the level is stored
ResultKey(level, k) == StepKey(level[k])

\* for idx, result in zip(level, level_results): results[f"step_{idx}"] = result
RECURSIVE StoreLevel(_, _, _)
StoreLevel(map, level, k) ==
    IF k > Len(level) THEN map
    ELSE StoreLevel(MapSet(map, ResultKey(level, k), task_result[level[k]]),
                    level, k + 1)

\* lines 156-160: gather returns the results in task order, they are stored
GatherReturn ==
    /\ pc = "gather"
    /\ GatherDone
    /\ results' = StoreLevel(results, CurrentLevel, 1)
    /\ level_no' = level_no + 1
    /\ pc' = "exec"
    /\ UNCHANGED <<plan, plan_steps, levels, processed, dependency_levels,
                   task_state, task_params, task_seen, task_result,
                   tool_cache, mcp_connections>>
    /\ UNCHANGED <<countVars, requestVars, registryVars, seqVars, entityVars>>

\* line 156: gather (return_exceptions is False) re-raises the first
\* exception of a task; execute_plan has no handler and raises it in turn.
\* The other tasks of the level are not cancelled.
GatherRaise ==
    /\ pc = "gather"
    /\ \E idx \in Range(CurrentLevel) : task_state[idx] = "failed"
    /\ pc' = "raised"
    /\ UNCHANGED <<plan, plan_steps, levels, processed, dependency_levels,
                   level_no, task_state, task_params, task_seen, task_result,
                   results, tool_cache, mcp_connections>>
    /\ UNCHANGED <<countVars, requestVars, registryVars, seqVars, entityVars>>

(***************************************************************************)
(* process_request (genesis_agent.py 23-56) from its call of execute_plan. *)
(***************************************************************************)
\* lines 38-50: execute_plan returned; the context is updated, then
\* format_response asks the LLM, which answers or raises (lines 51-56)
RequestUpdate ==
    /\ pc = "returned"
    /\ response = "none"
    /\ memory_store' = update(memory_store, RequestConversation, RequestQuery,
                               results, clock + 1)
    /\ clock' = clock + 1
    /\ response' \in {"ok", "error"}
    /\ UNCHANGED <<execVars, countVars, registryVars, seqVars, entityVars>>

\* RequestError with the update moved into a `finally`: the context is
\* updated on the error path as well
RequestErrorUpdates ==
    /\ pc = "raised"
    /\ response = "none"
    /\ response' = "error"
    /\ memory_store' = update(memory_store, RequestConversation, RequestQuery,
                               results, clock + 1)
    /\ clock' = clock + 1
    /\ UNCHANGED <<execVars, countVars, registryVars, seqVars, entityVars>>

\* lines 51-56: the exception of execute_plan is caught and logged, and a
\* response with "error": True is returned
RequestError ==
    /\ pc = "raised"
    /\ response = "none"
    /\ response' = "error"
    /\ UNCHANGED <<memory_store, clock>>
    /\ UNCHANGED <<execVars, countVars, registryVars, seqVars, entityVars>>

(***************************************************************************)
(* ContextManager.update called by any caller (context_manager.py 45-72).  *)
(***************************************************************************)
\* the context stored for a conversation, as a sequence of none or one
StoredContext(cid) ==
    IF cid \in DOMAIN memory_store THEN <<memory_store[cid]>> ELSE <<>>

\* the messages stored for a conversation
Messages(cid) ==
    IF cid \in DOMAIN memory_store THEN memory_store[cid].messages ELSE <<>>

\* update(cid, query, {}) is called; the conversations other than the
\* request's are updated MaxOther times at most
ContextUpdate(cid) ==
    /\ pc = "context"
    /\ clock < MaxUpdates
    /\ cid # RequestConversation => Len(Messages(cid)) < MaxOther
    /\ memory_store' = update(memory_store, cid, RequestQuery, EmptyMap, clock + 1)
    /\ clock' = clock + 1
    /\ UNCHANGED <<response, execVars, countVars, registryVars, seqVars,
                   entityVars>>

(***************************************************************************)
(* DynamicToolRegistry.get_tool (dynamic_loader.py 34-62) called by        *)
(* several tasks.  Every await of get_tool (taking the lock, _connect_mcp, *)
(* leaving the lock) is a point where the event loop may run another task. *)
(***************************************************************************)
\* the server of the tool caller c asks for
CallerServer(c) == ServerOf(get_tool_id[c])

\* lines 36-45: a cached tool is returned, an unknown tool raises
\* ValueError, any other goes on to the lock
GetLookup(c) ==
    /\ get_pc[c] = "called"
    /\ get_pc' = [get_pc EXCEPT ![c] =
                      IF get_tool_id[c] \in tool_cache THEN "returned"
                      ELSE IF get_tool_id[c] \notin Manifest THEN "raised"
                      ELSE "acquire"]
    /\ UNCHANGED <<get_tool_id, connection_lock, tool_connection>>
    /\ UNCHANGED <<execVars, countVars, requestVars, seqVars, entityVars>>

\* GetAcquire without the lock: line 48 lets every task in
GetAcquireNoLock(c) ==
    /\ get_pc[c] = "acquire"
    /\ connection_lock' = c
    /\ get_pc' = [get_pc EXCEPT ![c] = "locked"]
    /\ UNCHANGED <<get_tool_id, tool_connection>>
    /\ UNCHANGED <<execVars, countVars, requestVars, seqVars, entityVars>>

\* line 48: async with self.connection_lock, entered when the lock is free
GetAcquire(c) ==
    /\ get_pc[c] = "acquire"
    /\ connection_lock = 0
    /\ connection_lock' = c
    /\ get_pc' = [get_pc EXCEPT ![c] = "locked"]
    /\ UNCHANGED <<get_tool_id, tool_connection>>
    /\ UNCHANGED <<execVars, countVars, requestVars, seqVars, entityVars>>

\* lines 49-50: with no connection stored for the server _connect_mcp is
\* called; with one stored the lock is left at once
GetConnect(c) ==
    /\ get_pc[c] = "locked"
    /\ IF CallerServer(c) \in DOMAIN mcp_connections
       THEN /\ get_pc' = [get_pc EXCEPT ![c] = "unlocked"]
            /\ connection_lock' = 0
            /\ UNCHANGED connect_calls
       ELSE /\ get_pc' = [get_pc EXCEPT ![c] = "connecting"]
            /\ connect_calls' = CountConnect(CallerServer(c))
            /\ UNCHANGED connection_lock
    /\ UNCHANGED <<get_tool_id, tool_connection, invocations>>
    /\ UNCHANGED <<execVars, requestVars, seqVars, entityVars>>

\* line 50 and _connect_mcp, lines 64-95: the client is made and stored
\* under the server name, and the lock is left
GetConnected(c) ==
    /\ get_pc[c] = "connecting"
    /\ mcp_connections' =
           MapSet(mcp_connections, CallerServer(c), connect_calls[CallerServer(c)])
    /\ connection_lock' = 0
    /\ get_pc' = [get_pc EXCEPT ![c] = "unlocked"]
    /\ UNCHANGED <<plan, pc, plan_steps, levels, processed, dependency_levels,
                   level_no, task_state, task_params, task_seen, task_result,
                   results, tool_cache>>
    /\ UNCHANGED <<get_tool_id, tool_connection>>
    /\ UNCHANGED <<countVars, requestVars, seqVars, entityVars>>

\* _connect_mcp raises (lines 66, 74-75: the server is not configured;
\* lines 82-83: the address in the environment does not parse; line 92:
\* connect raises): nothing is stored, the lock is left, get_tool raises
GetConnectRaises(c) ==
    /\ get_pc[c] = "connecting"
    /\ connection_lock' = 0
    /\ get_pc' = [get_pc EXCEPT ![c] = "raised"]
    /\ UNCHANGED <<get_tool_id, tool_connection>>
    /\ UNCHANGED <<execVars, countVars, requestVars, seqVars, entityVars>>

\* lines 52-62: a RemoteTool on the stored connection is made, cached and
\* returned
GetWrap(c) ==
    /\ get_pc[c] = "unlocked"
    /\ tool_connection' =
           [tool_connection EXCEPT ![c] = mcp_connections[CallerServer(c)]]
    /\ tool_cache' = tool_cache \cup {get_tool_id[c]}
    /\ get_pc' = [get_pc EXCEPT ![c] = "returned"]
    /\ UNCHANGED <<plan, pc, plan_steps, levels, processed, dependency_levels,
                   level_no, task_state, task_params, task_seen, task_result,
                   results, mcp_connections>>
    /\ UNCHANGED <<get_tool_id, connection_lock>>
    /\ UNCHANGED <<countVars, requestVars, seqVars, entityVars>>

(***************************************************************************)
(* EnhancedGenesisAgent.execute_plan (enhanced_genesis_agent.py 402-441)   *)
(* and _transform_parameters_for_tool (288-349).  Step idx (0-based) is    *)
(* plan_steps[idx + 1]; the loop is at plan_steps[step_no].                *)
(***************************************************************************)
\* param_mapping, lines 324-332: the name a tool expects for a parameter
MappedKey(key) ==
    IF key \in {"symbols", "ticker", "tickers", "stock", "stocks"} THEN "symbol"
    ELSE IF key = "time_period" THEN "period"
    ELSE key

\* lines 339-344: a list under a mapped key is replaced by its first
\* element, None when it is empty
MappedValue(key, value) ==
    IF MappedKey(key) # key /\ value.t = "list"
    THEN IF value.items # <<>> THEN value.items[1] ELSE JNull
    ELSE value

\* the dict with the entries of pairs that are there, in order
DictOf(pairs) ==
    LET there == SelectSeq(pairs, LAMBDA pair : pair[3])
    IN  JDict([k \in DOMAIN there |-> there[k][1]],
              [k \in DOMAIN there |-> there[k][2]])

\* lines 291-314: stock_analyzer gets 'symbol' and 'period' only
TransformStockAnalyzer(params) ==
    LET has(key) == \E k \in DOMAIN params.keys : params.keys[k] = key
        symbols == DictGet(params, "symbols", JNull)
        symbol ==
            IF has("symbols")
            THEN IF symbols.t = "list"
                 THEN IF symbols.items # <<>> THEN symbols.items[1] ELSE JStr("SPY")
                 ELSE symbols
            ELSE DictGet(params, "symbol", JNull)
        period ==
            IF has("time_period") THEN DictGet(params, "time_period", JNull)
            ELSE DictGet(params, "period", JStr("1mo"))
    IN  DictOf(<< <<"symbol", symbol, has("symbols") \/ has("symbol")>>,
                  <<"period", period, TRUE>> >>)

\* _transform_parameters_for_tool (for parameters of which no two map to
\* the same name)
TransformParameters(tool_name, params) ==
    IF tool_name = "stock_analyzer" THEN TransformStockAnalyzer(params)
    ELSE JDict([k \in DOMAIN params.keys |-> MappedKey(params.keys[k])],
               [k \in DOMAIN params.keys |->
                   MappedValue(params.keys[k], params.items[k])])

\* what tool.execute(**kwargs) answers when it succeeds: the tool and the
\* arguments it was called with
ToolAnswer(tool_name, kwargs) ==
    JDict(<<"tool", "args">>, <<JStr(tool_name), kwargs>>)

\* lines 429-432 and 436-439: the entry appended to results["steps_executed"]
ResultEntry(tool_name, value) == JDict(<<"tool", "result">>, <<JStr(tool_name), value>>)
ErrorEntry(tool_name, text) == JDict(<<"tool", "error">>, <<JStr(tool_name), JStr(text)>>)

\* the step the for loop is at
SeqAt(idx) == pc = "loop" /\ step_no = idx + 1 /\ step_no \in DOMAIN plan_steps

\* lines 411-412: tools.get(step.tool_name) is None, the step is passed over
SeqSkip(idx) ==
    /\ SeqAt(idx)
    /\ plan_steps[idx + 1].tool_name \notin DOMAIN tools
    /\ task_state' = [task_state EXCEPT ![idx] = "skipped"]
    /\ step_no' = step_no + 1
    /\ UNCHANGED <<plan, pc, plan_steps, levels, processed, dependency_levels,
                   level_no, task_params, task_seen, task_result, results,
                   tool_cache, mcp_connections>>
    /\ UNCHANGED <<countVars, requestVars, registryVars, tools, entityVars>>

\* lines 413-428 and 434-439: the tool has no execute; the ValueError is
\* caught and recorded, the loop goes on
SeqNoExecute(idx) ==
    /\ SeqAt(idx)
    /\ plan_steps[idx + 1].tool_name \in DOMAIN tools
    /\ tools[plan_steps[idx + 1].tool_name] = "bare"
    /\ task_params' = [task_params EXCEPT ![idx] =
           TransformParameters(plan_steps[idx + 1].tool_name,
                               plan_steps[idx + 1].parameters)]
    /\ task_state' = [task_state EXCEPT ![idx] = "failed"]
    /\ results' = [results EXCEPT !.steps_executed =
           Append(@, ErrorEntry(plan_steps[idx + 1].tool_name, "no execute method"))]
    /\ step_no' = step_no + 1
    /\ UNCHANGED <<plan, pc, plan_steps, levels, processed, dependency_levels,
                   level_no, task_seen, task_result, tool_cache, mcp_connections>>
    /\ UNCHANGED <<countVars, requestVars, registryVars, tools, entityVars>>

\* lines 413-426: the parameters are transformed and tool.execute is awaited
SeqInvoke(idx) ==
    /\ SeqAt(idx)
    /\ plan_steps[idx + 1].tool_name \in DOMAIN tools
    /\ tools[plan_steps[idx + 1].tool_name] \in {"remote", "dict"}
    /\ task_params' = [task_params EXCEPT ![idx] =
           TransformParameters(plan_steps[idx + 1].tool_name,
                               plan_steps[idx + 1].parameters)]
    /\ task_state' = [task_state EXCEPT ![idx] = "running"]
    /\ invocations' = [invocations EXCEPT ![idx] = @ + 1]
    /\ pc' = "await"
    /\ UNCHANGED <<plan, plan_steps, levels, processed, dependency_levels,
                   level_no, task_seen, task_result, results,
                   tool_cache, mcp_connections>>
    /\ UNCHANGED <<connect_calls, requestVars, registryVars, seqVars, entityVars>>

\* lines 424-433: the call answers; the result is appended to steps_executed
\* and stored in final_results under the tool name
SeqReturns(idx) ==
    /\ pc = "await"
    /\ task_state[idx] = "running"
    /\ LET tool_name == plan_steps[idx + 1].tool_name
           step_result == ToolAnswer(tool_name, task_params[idx])
       IN  /\ task_result' = [task_result EXCEPT ![idx] = step_result]
           /\ results' = [steps_executed |->
                              Append(results.steps_executed,
                                     ResultEntry(tool_name, step_result)),
                          final_results |->
                              MapSet(results.final_results, tool_name, step_result)]
    /\ task_state' = [task_state EXCEPT ![idx] = "done"]
    /\ step_no' = step_no + 1
    /\ pc' = "loop"
    /\ UNCHANGED <<plan, plan_steps, levels, processed, dependency_levels,
                   level_no, task_params, task_seen, tool_cache, mcp_connections>>
    /\ UNCHANGED <<countVars, requestVars, registryVars, tools, entityVars>>

\* SeqRaises without the try/except of lines 410 and 434: the exception
\* leaves execute_plan
SeqRaisesUncaught(idx) ==
    /\ pc = "await"
    /\ task_state[idx] = "running"
    /\ task_state' = [task_state EXCEPT ![idx] = "failed"]
    /\ pc' = "raised"
    /\ UNCHANGED <<plan, plan_steps, levels, processed, dependency_levels,
                   level_no, task_params, task_seen, task_result, results,
                   tool_cache, mcp_connections>>
    /\ UNCHANGED <<countVars, requestVars, registryVars, seqVars, entityVars>>

\* lines 424 and 434-439: the call raises; the exception is caught and
\* recorded in steps_executed, the loop goes on
SeqRaises(idx) ==
    /\ pc = "await"
    /\ task_state[idx] = "running"
    /\ task_state' = [task_state EXCEPT ![idx] = "failed"]
    /\ results' = [results EXCEPT !.steps_executed =
           Append(@, ErrorEntry(plan_steps[idx + 1].tool_name, "tool error"))]
    /\ step_no' = step_no + 1
    /\ pc' = "loop"
    /\ UNCHANGED <<plan, plan_steps, levels, processed, dependency_levels,
                   level_no, task_params, task_seen, task_result,
                   tool_cache, mcp_connections>>
    /\ UNCHANGED <<countVars, requestVars, registryVars, tools, entityVars>>

\* lines 409 and 441: the loop is over, results is returned
SeqReturn ==
    /\ pc = "loop"
    /\ step_no = Len(plan_steps) + 1
    /\ pc' = "returned"
    /\ UNCHANGED <<plan, plan_steps, levels, processed, dependency_levels,
                   level_no, task_state, task_params, task_seen, task_result,
                   results, tool_cache, mcp_connections>>
    /\ UNCHANGED <<countVars, requestVars, registryVars, seqVars, entityVars>>

(***************************************************************************)
(* The calls made to the EnhancedContextManager: track_entity and          *)
(* add_message (by _update_context_from_execution, enhanced_genesis_agent  *)
(* 443-455) and update with a last_entity and a last_tool (by the tests).  *)
(***************************************************************************)
\* the conversation has room for one more call in this model: MaxTracks
\* interactions for the request's conversation (early: within its first
\* MaxEarly interactions), the first call only for the others
RoomFor(cid, early) ==
    LET count == get_enhanced_context(enhanced_store, cid).interaction_count
    IN  IF cid = RequestConversation
        THEN count < (IF early THEN MaxEarly ELSE MaxTracks)
        ELSE cid \notin DOMAIN enhanced_store

\* the record of the entity is a list (made by update): line 335 of
\* track_entity indexes it with 'count' and raises TypeError
HistoryIsList(context, entity) ==
    /\ entity \in DOMAIN context.entity_history
    /\ context.entity_history[entity].kind = "list"

\* the record of the entity is a dict (made by track_entity): line 87 of
\* update calls append on it and raises AttributeError
HistoryIsDict(context, entity) ==
    /\ entity \in DOMAIN context.entity_history
    /\ context.entity_history[entity].kind = "dict"

\* track_entity(cid, "stock", entity), lines 312-339.  The changes are made
\* in the context the first get_context handed out; update then records
\* its message in the context ITS get_context hands out: the same object
\* when the conversation is stored, a new default context when it is not.
TrackEntity(cid, entity) ==
    /\ pc = "entities"
    /\ RoomFor(cid, FALSE)
    /\ LET stored == cid \in DOMAIN enhanced_store
           held == NoteEntity(get_enhanced_context(enhanced_store, cid), entity)
       IN  IF HistoryIsList(held, entity)
           THEN /\ enhanced_store' = MapSet(enhanced_store, cid, held)
                /\ entity_call' = [op |-> "track_entity_raised",
                                   conversation_id |-> cid, entity |-> entity]
           ELSE /\ enhanced_store' =
                       UpdateWithContext(enhanced_store, cid,
                           IF stored THEN CountEntity(held, "stock", entity)
                           ELSE DefaultContext(cid))
                /\ entity_call' = [op |-> "track_entity",
                                   conversation_id |-> cid, entity |-> entity]
    /\ UNCHANGED <<execVars, countVars, requestVars, registryVars, seqVars>>

\* add_message(cid, message), lines 294-310: the message is appended and
\* counted in the context the first get_context handed out, then update is
\* called as in track_entity
AddMessage(cid) ==
    /\ pc = "entities"
    /\ RoomFor(cid, TRUE)
    /\ LET stored == cid \in DOMAIN enhanced_store
           context == get_enhanced_context(enhanced_store, cid)
           held == [context EXCEPT
                       !.messages = Append(@, [query |-> None,
                                               updates |-> {"type", "intent", "entities",
                                                            "tools_used", "timestamp"},
                                               hash |-> None]),
                       !.interaction_count = @ + 1]
       IN  enhanced_store' =
               UpdateWithContext(enhanced_store, cid,
                                 IF stored THEN held ELSE DefaultContext(cid))
    /\ entity_call' = [op |-> "add_message", conversation_id |-> cid, entity |-> ""]
    /\ UNCHANGED <<execVars, countVars, requestVars, registryVars, seqVars>>

\* update(cid, query, {"last_entity": entity, "last_tool": "stock_analyzer"}),
\* lines 63-147
EntityUpdate(cid, entity) ==
    /\ pc = "entities"
    /\ RoomFor(cid, TRUE)
    /\ LET stored == cid \in DOMAIN enhanced_store
           context == get_enhanced_context(enhanced_store, cid)
       IN  IF HistoryIsDict(context, entity)
           THEN /\ enhanced_store' =
                       MapSet(enhanced_store, cid,
                              [context EXCEPT
                                  !.last_entity = entity,
                                  !.recent_entities =
                                      IF entity \in Range(Deque(@, RecentLimit))
                                      THEN Deque(@, RecentLimit)
                                      ELSE DequeAppend(@, entity, RecentLimit)])
                /\ entity_call' = [op |-> "update_raised",
                                   conversation_id |-> cid, entity |-> entity]
           ELSE /\ enhanced_store' =
                       MapSet(enhanced_store, cid,
                              RecordMessage(
                                  NoteEntityAndTool(context, entity, "stock_analyzer"),
                                  RequestQuery, {"last_entity", "last_tool"}))
                /\ entity_call' = [op |-> "update",
                                   conversation_id |-> cid, entity |-> entity]
    /\ UNCHANGED <<execVars, countVars, requestVars, registryVars, seqVars>>

(***************************************************************************)
(* Specifications.                                                         *)
(***************************************************************************)
Next ==
    \/ NormalizePlan
    \/ RejectPlan
    \/ GroupScan
    \/ GroupReturn
    \/ LaunchLevel
    \/ ReturnResults
    \/ \E idx \in StepIdx : StepInvoke(idx)
    \/ \E idx \in StepIdx : StepToolNotFound(idx)
    \/ \E idx \in StepIdx : StepReturn(idx)
    \/ \E idx \in StepIdx : StepRaise(idx)
    \/ GatherReturn
    \/ GatherRaise
    \/ RequestUpdate
    \/ RequestError

Spec == Init /\ [][Next]_vars

\* the leveler alone, on every plan of LevelerPlans
NextGroup == GroupScan \/ GroupReturn \/ GroupAgain

SpecGroup == InitGroup /\ [][NextGroup]_vars

\* _execute_step alone, on every step of StepParams and map of ResultMaps
NextStep ==
    \/ \E idx \in StepIdx : StepInvoke(idx)
    \/ \E idx \in StepIdx : StepToolNotFound(idx)
    \/ \E idx \in StepIdx : StepReturn(idx)
    \/ \E idx \in StepIdx : StepRaise(idx)

SpecStep == InitStep /\ [][NextStep]_vars

\* ContextManager.update alone, on the conversations of Conversations
NextContext == \E cid \in Conversations : ContextUpdate(cid)

SpecContext == InitContext /\ [][NextContext]_vars

\* the get_tool calls of one load_tools, in every interleaving
NextRegistry ==
    \/ \E c \in Callers : GetLookup(c)
    \/ \E c \in Callers : GetAcquire(c)
    \/ \E c \in Callers : GetConnect(c)
    \/ \E c \in Callers : GetConnected(c)
    \/ \E c \in Callers : GetConnectRaises(c)
    \/ \E c \in Callers : GetWrap(c)

SpecRegistry == InitRegistry /\ [][NextRegistry]_vars

\* EnhancedGenesisAgent.execute_plan on every plan of SeqPlans
NextSeq ==
    \/ \E idx \in StepIdx : SeqSkip(idx)
    \/ \E idx \in StepIdx : SeqNoExecute(idx)
    \/ \E idx \in StepIdx : SeqInvoke(idx)
    \/ \E idx \in StepIdx : SeqReturns(idx)
    \/ \E idx \in StepIdx : SeqRaises(idx)
    \/ SeqReturn

SpecSeq == InitSeq /\ [][NextSeq]_vars

\* the EnhancedContextManager under any sequence of calls
NextEntity ==
    \/ \E cid \in Conversations, entity \in Entities : TrackEntity(cid, entity)
    \/ \E cid \in Conversations : AddMessage(cid)
    \/ \E cid \in Conversations, entity \in Entities : EntityUpdate(cid, entity)

SpecEntity == InitEntity /\ [][NextEntity]_vars

(***************************************************************************)
(* Vocabulary of the properties.                                           *)
(***************************************************************************)
\* the indices of the steps of a plan
Indices(steps) == 0..(Len(steps) - 1)

\* the indices step idx depends on
Deps(steps, idx) == Range(steps[idx + 1].depends_on)

\* every depends_on index names a step of the plan
InRange(steps) == \A idx \in Indices(steps) : Deps(steps, idx) \subseteq Indices(steps)

\* some non-empty set of steps in which every step depends on a step of the set
HasCycle(steps) ==
    \E S \in SUBSET Indices(steps) :
        /\ S # {}
        /\ \A idx \in S : Deps(steps, idx) \cap S # {}

ValidPlan(steps) == InRange(steps) /\ ~HasCycle(steps)

\* the positions (level, place) at which idx occurs in a list of levels
Places(lv, idx) ==
    UNION {{<<k, j>> : j \in {m \in DOMAIN lv[k] : lv[k][m] = idx}} :
              k \in DOMAIN lv}

\* the number of the first level holding idx, 0 when no level holds it
LevelOf(lv, idx) ==
    IF \A k \in DOMAIN lv : idx \notin Range(lv[k]) THEN 0
    ELSE CHOOSE k \in DOMAIN lv :
            /\ idx \in Range(lv[k])
            /\ \A m \in 1..(k - 1) : idx \notin Range(lv[m])

\* step idx has resolved its parameters and looked up its tool
Started(idx) == task_state[idx] \in {"running", "done", "failed"}

\* tool.execute was entered for step idx
Invoked(idx) == task_state[idx] \in {"running", "done"} \/
                (task_state[idx] = "failed" /\ plan_steps[idx + 1].tool_id \in Manifest)

\* step idx has returned or raised
Completed(idx) == task_state[idx] \in {"done", "failed"}

\* an entry {tool, error} recording the failure of a step
IsErrorEntry(value) == value.t = "dict" /\ Range(value.keys) = {"tool", "error"}

(***************************************************************************)
(* Properties of _group_by_dependencies, checked under SpecGroup.          *)
(***************************************************************************)
\* C1: Cycle detection.  On a plan whose depends_on edges contain a cycle
\* the leveler stops with a CyclicPlanError: once a scan has placed no step
\* (an empty level), the leveler is no longer in its loop, and it never has
\* more levels than the plan has steps.
C1_CycleDetection ==
    HasCycle(plan_steps) =>
        /\ (\E k \in DOMAIN levels : levels[k] = <<>>) => pc # "group"
        /\ Len(levels) <= Len(plan_steps)

\* C3: Dependency ordering.  For a plan with in-range, acyclic depends_on
\* lists, every step the leveler has placed has each of its dependencies
\* placed in a strictly earlier level.
C3_DependencyOrdering ==
    ValidPlan(plan_steps) =>
        \A idx \in Indices(plan_steps) :
            LevelOf(levels, idx) >= 1 =>
                \A dep \in Deps(plan_steps, idx) :
                    /\ LevelOf(levels, dep) >= 1
                    /\ LevelOf(levels, dep) < LevelOf(levels, idx)

\* the leveler returned three levels for a valid plan: a chain 0 <- 1 <- 2
C3_Witness ==
    /\ pc = "exec"
    /\ ValidPlan(plan_steps)
    /\ Len(dependency_levels) >= 3
    /\ \E idx \in Indices(plan_steps) : Cardinality(Deps(plan_steps, idx)) >= 2

\* C4: Levelling completeness.  For a plan with in-range, acyclic depends_on
\* lists, the returned levels partition the index set: every step index
\* occurs at exactly one place of exactly one level, and every entry of a
\* level is a step index of the plan.
C4_LevellingCompleteness ==
    (pc = "exec" /\ ValidPlan(plan_steps)) =>
        /\ \A idx \in Indices(plan_steps) :
               Cardinality(Places(dependency_levels, idx)) = 1
        /\ \A k \in DOMAIN dependency_levels :
               Range(dependency_levels[k]) \subseteq Indices(plan_steps)

\* the leveler returned, for a valid plan of three or more steps, a level of
\* two steps and another level
C4_Witness ==
    /\ pc = "exec"
    /\ ValidPlan(plan_steps)
    /\ Len(plan_steps) >= 3
    /\ Len(dependency_levels) >= 2
    /\ \E k \in DOMAIN dependency_levels : Len(dependency_levels[k]) >= 2

\* C11: No-progress detection.  A scan that places no step while unplaced
\* steps remain (a cycle, a step that names itself, an index outside the
\* plan) makes the leveler fail with a CyclicPlanError: an empty level is
\* never followed by another scan, and the loop is left once one exists.
C11_NoProgressDetection ==
    \A k \in DOMAIN levels :
        levels[k] = <<>> => (k = Len(levels) /\ pc # "group")

\* the second call of the leveler on the plan is running
SecondCall == pc = "group" /\ level_no = 1

C16_GreedyLayering ==
    (pc = "exec" /\ ValidPlan(plan_steps)) =>
        \A idx \in Indices(plan_steps) :
            /\ LevelOf(dependency_levels, idx) >= 1
            /\ Deps(plan_steps, idx) = {} => LevelOf(dependency_levels, idx) = 1
            /\ Deps(plan_steps, idx) # {} =>
                   \E dep \in Deps(plan_steps, idx) :
                       /\ LevelOf(dependency_levels, idx)
                              = LevelOf(dependency_levels, dep) + 1
                       /\ \A other \in Deps(plan_steps, idx) :
                              LevelOf(dependency_levels, other)
                                  <= LevelOf(dependency_levels, dep)

\* levels were returned for a valid plan with a step whose dependencies lie
\* in two different levels
C16_Witness ==
    /\ pc = "exec"
    /\ ValidPlan(plan_steps)
    /\ \E idx \in Indices(plan_steps) :
           \E d1, d2 \in Deps(plan_steps, idx) :
               LevelOf(dependency_levels, d1) < LevelOf(dependency_levels, d2)

\* C17: Leveler termination on valid plans.  For a valid plan the leveler
\* never makes more scans than the plan has steps, never builds an empty
\* level, and while steps remain unplaced the next scan places at least one,
\* so that the loop ends with at most len(plan) levels.
C17_LevelerTermination ==
    ValidPlan(plan_steps) =>
        /\ Len(levels) <= Len(plan_steps)
        /\ \A k \in DOMAIN levels : levels[k] # <<>>
        /\ (pc = "group" /\ LoopContinues) =>
               /\ ScanLevel(plan_steps, processed) # <<>>
               /\ Len(levels) < Len(plan_steps)
        /\ pc = "exec" => /\ dependency_levels = levels
                          /\ Cardinality(processed) = Len(plan_steps)

\* the leveler returned after as many scans as the plan has steps
C17_Witness ==
    /\ pc = "exec"
    /\ ValidPlan(plan_steps)
    /\ Len(plan_steps) >= 3
    /\ Len(dependency_levels) = Len(plan_steps)

(***************************************************************************)
(* Properties of execute_plan, checked under Spec.                         *)
(***************************************************************************)
\* the level execute_plan assigned to step idx (0: none)
Level(idx) == LevelOf(dependency_levels, idx)

\* the results of level k have been stored by the loop of lines 159-160
Stored(k) == k >= 1 /\ k < level_no

\* C2: Partial failure isolation.  With a plan of two dependency-free steps
\* of which one invocation raised and the other returned, execute_plan does
\* not raise, and when it has returned the map holds the output of the step
\* that succeeded and a {tool, error} entry for the step that raised.
C2_PartialFailureIsolation ==
    \A ok, bad \in {0, 1} :
        ( /\ pc \notin {"start", "group"}
          /\ Len(plan_steps) = 2
          /\ plan_steps[1].depends_on = <<>>
          /\ plan_steps[2].depends_on = <<>>
          /\ task_state[ok] = "done"
          /\ task_state[bad] = "failed" )
        => /\ pc # "raised"
           /\ pc = "returned" =>
                 /\ {StepKey(ok), StepKey(bad)} \subseteq DOMAIN results
                 /\ results[StepKey(ok)] = task_result[ok]
                 /\ IsErrorEntry(results[StepKey(bad)])

\* C5: Strict level ordering.  Whenever the coroutine of a step exists, every
\* step of every earlier level has completed.
C5_StrictLevelOrdering ==
    \A idx, before \in Indices(plan_steps) :
        ( /\ task_state[idx] # "none"
          /\ Level(before) >= 1
          /\ Level(before) < Level(idx) )
        => Completed(before)

\* a step of the second level is inside its tool call
C5_Witness ==
    \E idx \in Indices(plan_steps) :
        /\ Level(idx) >= 2
        /\ task_state[idx] = "running"

\* C6: Result visibility.  The result map a step resolved its parameters
\* against held exactly the step_<i> keys of the steps of strictly earlier
\* levels, and so no key of a step of its own level.
C6_ResultVisibility ==
    \A idx \in Indices(plan_steps) :
        Started(idx) =>
            task_seen[idx] =
                {StepKey(j) : j \in {i \in Indices(plan_steps) :
                                        Level(i) >= 1 /\ Level(i) < Level(idx)}}

\* in a level after the first, a step resolved its parameters while a
\* sibling launched before it has already returned
C6_Witness ==
    \E idx, sib \in Indices(plan_steps) :
        /\ idx # sib
        /\ Level(idx) >= 2
        /\ Level(sib) = Level(idx)
        /\ task_state[sib] = "done"
        /\ task_state[idx] = "running"
        /\ task_seen[idx] # {}

\* C7: Level-internal independence.  Once a level has been stored, the map
\* binds step_<i> to the value step i's own invocation returned, for every
\* step i of the level, in whatever order the invocations completed.
C7_LevelInternalIndependence ==
    \A idx \in Indices(plan_steps) :
        Stored(Level(idx)) =>
            /\ StepKey(idx) \in DOMAIN results
            /\ results[StepKey(idx)] = task_result[idx]
            /\ task_result[idx] =
                   ToolReturn(plan_steps[idx + 1].tool_id, task_params[idx])

\* a stored level of two steps whose invocations returned different values
C7_Witness ==
    \E idx, sib \in Indices(plan_steps) :
        /\ idx # sib
        /\ Level(sib) = Level(idx)
        /\ Stored(Level(idx))
        /\ task_result[idx] # task_result[sib]

\* the plan of the end-to-end scenario: A, then B echoing x = "$step_0"
ScenarioPlan ==
    <<[tool_id |-> "A", parameters |-> NoParams, depends_on |-> <<>>],
      [tool_id |-> "B", parameters |-> JDict(<<"x">>, <<JStr("$step_0")>>),
       depends_on |-> <<0>>]>>

\* C8: End-to-end data flow.  A step that depends on step i and has the
\* parameter x = "$step_<i>" is invoked with x equal to the value stored as
\* result["step_<i>"]; for the plan A then B the levels are [[0],[1]] and
\* result["step_1"] equals result["step_0"].
C8_EndToEndDataFlow ==
    /\ \A idx, dep \in Indices(plan_steps) :
           ( /\ Invoked(idx)
             /\ dep \in Deps(plan_steps, idx)
             /\ DictGet(plan_steps[idx + 1].parameters, "x", NoParams)
                    = JStr("$" \o StepKey(dep)) )
           => /\ StepKey(dep) \in DOMAIN results
              /\ DictGet(task_params[idx], "x", NoParams) = results[StepKey(dep)]
    /\ (plan_steps = ScenarioPlan /\ pc = "returned") =>
           /\ dependency_levels = <<(<<0>>), (<<1>>)>>
           /\ DOMAIN results = {"step_0", "step_1"}
           /\ results["step_0"] = JDict(<<"v">>, <<JNum(5)>>)
           /\ results["step_1"] = results["step_0"]

\* the scenario plan has been executed to the end
C8_Witness == plan_steps = ScenarioPlan /\ pc = "returned"

\* C9: Failure does not stop later levels.  When execute_plan has ended and
\* a step of some level failed, every step of every later level has been
\* started.
C9_FailureDoesNotStopLaterLevels ==
    pc \in {"returned", "raised"} =>
        \A bad, later \in Indices(plan_steps) :
            ( /\ task_state[bad] = "failed"
              /\ LevelOf(levels, bad) >= 1
              /\ LevelOf(levels, later) > LevelOf(levels, bad) )
            => Started(later)

\* a plan that is neither a list nor a dict with a 'steps' key was handled
MalformedHandled == plan.kind \notin {"list", "dict"} /\ pc # "start"

\* no tool was looked up or invoked
NoToolTouched ==
    /\ \A idx \in StepIdx : task_state[idx] = "none"
    /\ tool_cache = {}
    /\ mcp_connections = NoConnections

C14_EmptyPlan ==
    (plan.kind \in {"list", "dict"} /\ plan.steps = <<>>) =>
        /\ pc \in {"start", "group", "exec", "returned"}
        /\ results = EmptyMap
        /\ levels = <<>>
        /\ NoToolTouched

\* execute_plan([]) has returned
C14_Witness == plan.kind = "list" /\ plan.steps = <<>> /\ pc = "returned"

\* the store loop of lines 159-160 runs in this step
StoreStep == pc = "gather" /\ pc' = "exec"

\* C15: Append-only result map.  Every step of the execution keeps all the
\* keys of the result map with their values; a key step_<i> is added only by
\* the store loop of the level of step i, which adds one new key for each
\* step of the level and finds none of them already there.
C15_AppendOnlyResultMap ==
    [][ /\ \A key \in DOMAIN results :
               key \in DOMAIN results' /\ results'[key] = results[key]
        /\ StoreStep =>
               /\ \A idx \in Range(CurrentLevel) : StepKey(idx) \notin DOMAIN results
               /\ DOMAIN results' \ DOMAIN results
                      = {StepKey(idx) : idx \in Range(CurrentLevel)}
               /\ Cardinality(DOMAIN results' \ DOMAIN results) = Len(CurrentLevel)
        /\ ~StoreStep =>
               \A idx \in StepIdx :
                   StepKey(idx) \in DOMAIN results' => StepKey(idx) \in DOMAIN results
      ]_vars

\* two levels have been stored and the map was returned
C15_Witness ==
    /\ pc = "returned"
    /\ level_no >= 3
    /\ Cardinality(DOMAIN results) >= 3

\* C18: Executor completion.  For a valid plan execute_plan does not end
\* with an exception when an invocation fails, and the map it returns has
\* exactly the keys step_0 .. step_<n-1>.
C18_ExecutorCompletion ==
    (plan.kind \in {"list", "dict"} /\ ValidPlan(plan.steps)) =>
        /\ pc # "raised"
        /\ pc = "returned" =>
               DOMAIN results = {StepKey(idx) : idx \in Indices(plan.steps)}

\* C19: Hung tool blocks the plan.  As long as the invocation of a step has
\* not completed, execute_plan has not returned and no step of a later level
\* has been started, whatever the other invocations of its level did.
C19_HungToolBlocksPlan ==
    \A idx \in Indices(plan_steps) :
        (Level(idx) >= 1 /\ task_state[idx] = "running") =>
            /\ pc # "returned"
            /\ \A later \in Indices(plan_steps) :
                   Level(later) > Level(idx) => task_state[later] = "none"

\* an invocation is pending while every sibling of its level has returned
\* and a later level is waiting
C19_Witness ==
    \E idx, sib \in Indices(plan_steps) :
        /\ idx # sib
        /\ pc = "gather"
        /\ Level(idx) = level_no
        /\ Level(sib) = level_no
        /\ task_state[idx] = "running"
        /\ \A other \in Range(CurrentLevel) \ {idx} : task_state[other] = "done"
        /\ Len(dependency_levels) > level_no

\* a coroutine of _execute_step runs lines 166-173 in this step
ResolveStep ==
    \E idx \in StepIdx : task_state[idx] = "created" /\ task_state'[idx] # "created"

\* C20: No mutation of inputs.  Resolving the parameters of a step changes
\* neither the step nor the result map, and from the normalisation to the
\* end of execute_plan the steps (tool_id, parameters with their "$..."
\* placeholders, depends_on) are those of the plan that was passed.
C20_NoMutationOfInputs ==
    [][ /\ plan' = plan
        /\ (pc = "start" /\ pc' = "group") => plan_steps' = plan.steps
        /\ pc # "start" => plan_steps' = plan_steps
        /\ ResolveStep => results' = results
      ]_vars

\* execute_plan has returned after a step was invoked with parameters that
\* differ from the ones written in the plan
C20_Witness ==
    /\ pc = "returned"
    /\ plan_steps = plan.steps
    /\ \E idx \in Indices(plan_steps) :
           /\ task_state[idx] = "done"
           /\ task_params[idx] # plan_steps[idx + 1].parameters

\* C27: Exactly-once invocation.  In a run of execute_plan on a valid plan
\* no step has its tool invoked twice, and when execute_plan has returned
\* (every invocation succeeded) the tool of every step was invoked exactly
\* once.
C27_ExactlyOnceInvocation ==
    ValidPlan(plan_steps) =>
        /\ \A idx \in Indices(plan_steps) : invocations[idx] <= 1
        /\ pc = "returned" =>
               \A idx \in Indices(plan_steps) :
                   invocations[idx] = 1 /\ task_state[idx] = "done"

\* execute_plan has returned for a valid plan of three steps in two or more
\* levels, one of them holding two steps
C27_Witness ==
    /\ pc = "returned"
    /\ ValidPlan(plan_steps)
    /\ Len(plan_steps) = 3
    /\ Len(dependency_levels) = 2
    /\ \A idx \in Indices(plan_steps) : invocations[idx] = 1

\* C29: Request-level failure containment.  When execute_plan has raised
\* the exception of a tool step, process_request returns a response with
\* "error": True (never a normal response), and the stored contexts are
\* those of before the request.
C29_RequestFailureContainment ==
    pc = "raised" =>
        /\ response \in {"none", "error"}
        /\ memory_store = StoredBefore
        /\ clock = 1

\* process_request has answered with an error after a step raised, while a
\* sibling of that step returned
C29_Witness ==
    /\ pc = "raised"
    /\ response = "error"
    /\ \E idx, sib \in Indices(plan_steps) :
           task_state[idx] = "failed" /\ task_state[sib] = "done"

(***************************************************************************)
(* Properties of _substitute_references inside _execute_step, checked      *)
(* under SpecStep.                                                         *)
(***************************************************************************)
\* the string is "$<key>" for a key of the map
RefersTo(str, key) == str = "$" \o key

\* out has the mappings and lists of inp, and wherever inp has a reference
\* to a key of res, out has the whole value res holds for that key
RECURSIVE HitsReplaced(_, _, _)
HitsReplaced(inp, out, res) ==
    IF inp.t = "str"
    THEN \A key \in DOMAIN res : RefersTo(inp.s, key) => out = res[key]
    ELSE IF inp.t \in {"dict", "list"}
    THEN /\ out.t = inp.t
         /\ out.keys = inp.keys
         /\ DOMAIN out.items = DOMAIN inp.items
         /\ \A k \in DOMAIN inp.items : HitsReplaced(inp.items[k], out.items[k], res)
    ELSE TRUE

\* out has the mappings and lists of inp, and wherever inp has a "$..."
\* string that refers to no key of res, out has the same string
RECURSIVE MissesKept(_, _, _)
MissesKept(inp, out, res) ==
    IF inp.t = "str"
    THEN (StartsWithSigil(inp.s) /\ \A key \in DOMAIN res : ~RefersTo(inp.s, key))
             => out = inp
    ELSE IF inp.t \in {"dict", "list"}
    THEN /\ out.t = inp.t
         /\ out.keys = inp.keys
         /\ DOMAIN out.items = DOMAIN inp.items
         /\ \A k \in DOMAIN inp.items : MissesKept(inp.items[k], out.items[k], res)
    ELSE TRUE

\* value occurs in tree, at any depth
RECURSIVE Occurs(_, _)
Occurs(value, tree) ==
    \/ tree = value
    \/ \E k \in DOMAIN tree.items : Occurs(value, tree.items[k])

\* C12: Reference substitution correctness.  Every "$<key>" string of the
\* parameters whose key is in the result map is replaced, at any depth of
\* mappings and lists, by the whole value stored under the key;
\* {"base": "$step_0"} with step_0 = {"price": 100} gives
\* {"base": {"price": 100}}.
C12_SubstitutionCorrectness ==
    Started(0) =>
        /\ HitsReplaced(plan_steps[1].parameters, task_params[0], results)
        /\ ( /\ plan_steps[1].parameters = JDict(<<"base">>, <<JStr("$step_0")>>)
             /\ results = MapSet(EmptyMap, "step_0", JDict(<<"price">>, <<JNum(100)>>)) )
           => task_params[0] =
                  JDict(<<"base">>, <<JDict(<<"price">>, <<JNum(100)>>)>>)

\* a step resolved a reference that lies inside a list inside a mapping
C12_Witness ==
    /\ Started(0)
    /\ "step_0" \in DOMAIN results
    /\ \E v \in Trees(0) :
           plan_steps[1].parameters =
               JDict(<<"base">>, <<JDict(<<"base">>, <<JList(<<v, JStr("$step_0")>>)>>)>>)
    /\ task_params[0] # plan_steps[1].parameters

\* C13: Soft-fail on miss.  A "$<key>" string whose key is not in the result
\* map is handed on unchanged, the tool of the step is called with it, and
\* "$missing" against the empty map stays "$missing".
C13_SoftFailOnMiss ==
    Started(0) =>
        /\ MissesKept(plan_steps[1].parameters, task_params[0], results)
        /\ ( /\ plan_steps[1].parameters = JDict(<<"base">>, <<JStr("$missing")>>)
             /\ results = EmptyMap )
           => task_params[0] = JDict(<<"base">>, <<JStr("$missing")>>)

\* the tool of a step is being called with the literal "$missing"
C13_Witness ==
    /\ task_state[0] = "running"
    /\ results = EmptyMap
    /\ Occurs(JStr("$missing"), plan_steps[1].parameters)
    /\ Occurs(JStr("$missing"), task_params[0])

\* out has the mapping keys, the list lengths and the positions of inp at
\* every depth, and every scalar of inp that is not a "$..." string
RECURSIVE StructureKept(_, _)
StructureKept(inp, out) ==
    IF inp.t = "str"
    THEN ~StartsWithSigil(inp.s) => out = inp
    ELSE IF inp.t = "dict"
    THEN /\ out.t = "dict"
         /\ out.keys = inp.keys
         /\ Len(out.items) = Len(inp.items)
         /\ \A k \in DOMAIN inp.items : StructureKept(inp.items[k], out.items[k])
    ELSE IF inp.t = "list"
    THEN /\ out.t = "list"
         /\ Len(out.items) = Len(inp.items)
         /\ \A k \in DOMAIN inp.items : StructureKept(inp.items[k], out.items[k])
    ELSE out = inp

\* C21: Structure preservation.  The resolved parameters have the mapping
\* keys and the list lengths and positions of the parameters at every depth;
\* numbers, booleans, null and strings that do not start with "$" are
\* unchanged, and a mapping key is never replaced, even when it is "$<key>"
\* for a stored key.
C21_StructurePreservation ==
    Started(0) => StructureKept(plan_steps[1].parameters, task_params[0])

\* a step resolved parameters whose mapping key names a stored result and
\* whose list holds a number next to a reference
C21_Witness ==
    /\ Started(0)
    /\ "step_0" \in DOMAIN results
    /\ plan_steps[1].parameters =
           JDict(<<"base">>,
                 <<JDict(<<"$step_0">>, <<JList(<<JNum(1), JStr("$step_0")>>)>>)>>)
    /\ task_params[0] # plan_steps[1].parameters
    /\ task_params[0].items[1].keys = <<"$step_0">>
    /\ task_params[0].items[1].items[1].items[1] = JNum(1)

\* the conversation context as a mapping of JSON values
ContextMapping(context) ==
    MapSet(MapSet(EmptyMap, "conversation_id", JStr(context.conversation_id)),
           "messages",
           JList([k \in DOMAIN context.messages |->
                     JDict(<<"query", "hash">>,
                           <<JStr(context.messages[k].query),
                             JStr(context.messages[k].hash)>>)]))

\* the string is "$context.<key>"
RefersToContext(str, key) == str = "$context." \o key

\* wherever inp has a reference to a key of the context, out has the value
\* the context holds for that key
RECURSIVE ContextHitsReplaced(_, _, _)
ContextHitsReplaced(inp, out, ctx) ==
    IF inp.t = "str"
    THEN \A key \in DOMAIN ctx : RefersToContext(inp.s, key) => out = ctx[key]
    ELSE IF inp.t \in {"dict", "list"}
    THEN /\ out.t = inp.t
         /\ DOMAIN out.items = DOMAIN inp.items
         /\ \A k \in DOMAIN inp.items :
                ContextHitsReplaced(inp.items[k], out.items[k], ctx)
    ELSE TRUE

\* C22: Context-reference variant.  A parameter string "$context.<key>"
\* whose key is in the context of the conversation is replaced by the value
\* the context holds for the key.
C22_ContextReference ==
    Started(0) =>
        ContextHitsReplaced(plan_steps[1].parameters, task_params[0],
            ContextMapping(get_context(memory_store, RequestConversation, clock)))

\* a "$..." string occurs in the value, at any depth
RECURSIVE SigilInside(_)
SigilInside(value) ==
    \/ value.t = "str" /\ StartsWithSigil(value.s)
    \/ \E k \in DOMAIN value.items : SigilInside(value.items[k])

\* C30: Single-pass substitution.  A stored result is inserted as it is,
\* "$..." strings included, and is not resolved again; when no stored result
\* holds a "$..." string, resolving the resolved parameters once more
\* against the same result map changes nothing.
C30_SinglePassSubstitution ==
    Started(0) =>
        /\ \A key \in DOMAIN results :
               Occurs(JStr("$" \o key), plan_steps[1].parameters)
                   => Occurs(results[key], task_params[0])
        /\ (\A key \in DOMAIN results : ~SigilInside(results[key]))
               => substitute(task_params[0], results) = task_params[0]

\* a step resolved "$step_0" to the stored "$step_1", which a second pass
\* would resolve further
C30_Witness ==
    /\ Started(0)
    /\ "step_1" \in DOMAIN results
    /\ results["step_0"] = JStr("$step_1")
    /\ plan_steps[1].parameters = JDict(<<"base">>, <<JStr("$step_0")>>)
    /\ task_params[0] = JDict(<<"base">>, <<JStr("$step_1")>>)
    /\ substitute(task_params[0], results) # task_params[0]

(***************************************************************************)
(* Properties of ContextManager, checked under SpecContext.                *)
(***************************************************************************)
\* C25: Bounded history.  After every call of update the conversation holds
\* at most 50 messages; the call puts its message last and keeps the
\* messages that were there in their order, dropping the oldest one exactly
\* when 50 were stored; and a call changes the stored context of one
\* conversation only.
C25_BoundedHistory ==
    [][ /\ \A cid \in Conversations :
               /\ Len(Messages(cid)') <= 50
               /\ \/ StoredContext(cid)' = StoredContext(cid)
                  \/ /\ Messages(cid)' # <<>>
                     /\ Messages(cid)'[Len(Messages(cid)')].timestamp = clock'
                     /\ \E drop \in {0, 1} :
                            /\ drop = 1 <=> Len(Messages(cid)) = 50
                            /\ SubSeq(Messages(cid)', 1, Len(Messages(cid)') - 1)
                                   = SubSeq(Messages(cid), 1 + drop, Len(Messages(cid)))
        /\ \A cid, other \in Conversations :
               cid # other =>
                   \/ StoredContext(cid)' = StoredContext(cid)
                   \/ StoredContext(other)' = StoredContext(other)
      ]_vars

\* a conversation holds 50 messages after its two oldest were dropped, and
\* another conversation is stored
C25_Witness ==
    /\ Len(Messages("c1")) = 50
    /\ Messages("c1")[1].timestamp > 2
    /\ Len(Messages("c2")) = 1

(***************************************************************************)
(* Properties of DynamicToolRegistry.get_tool, checked under SpecRegistry. *)
(***************************************************************************)
\* every RemoteTool made uses the connection stored for its server
ToolsUseStoredConnection ==
    \A c \in Callers :
        tool_connection[c] # 0 =>
            /\ CallerServer(c) \in DOMAIN mcp_connections
            /\ tool_connection[c] = mcp_connections[CallerServer(c)]

\* C28 as stated: One connection per server.  In every interleaving of the
\* get_tool calls _connect_mcp is called at most once for each server name,
\* and every RemoteTool made for the server uses the stored connection.
C28_OneConnectCallPerServer ==
    /\ \A server \in Servers : connect_calls[server] <= 1
    /\ ToolsUseStoredConnection

\* C28 as amended: _connect_mcp is never called for a server that has a
\* stored connection and never by two tasks at a time, so that it returns
\* a connection at most once for each server name (the connection stored is
\* the one of the last call made); a call that raised stored nothing; and
\* every RemoteTool made for the server uses the stored connection.
C28_OneConnectionPerServer ==
    /\ \A c \in Callers :
           get_pc[c] = "connecting" =>
               /\ CallerServer(c) \notin DOMAIN mcp_connections
               /\ \A other \in Callers \ {c} : get_pc[other] # "connecting"
    /\ \A server \in DOMAIN mcp_connections :
           mcp_connections[server] = connect_calls[server]
    /\ \A server \in Servers :
           (connect_calls[server] > 0 /\ server \notin DOMAIN mcp_connections) =>
               \/ \E c \in Callers : get_pc[c] = "connecting" /\ CallerServer(c) = server
               \/ \E c \in Callers : get_pc[c] = "raised" /\ CallerServer(c) = server
    /\ ToolsUseStoredConnection

\* two tasks asked for tools of one server at the same time: one connected
\* after the other had waited for the lock, and both made their RemoteTool
C28_Witness ==
    \E c, other \in Callers :
        /\ c # other
        /\ get_tool_id[c] # get_tool_id[other]
        /\ CallerServer(c) = CallerServer(other)
        /\ get_pc[c] = "returned"
        /\ get_pc[other] = "returned"
        /\ tool_connection[c] = 1
        /\ tool_connection[other] = 1
        /\ connect_calls[CallerServer(c)] = 1

(***************************************************************************)
(* Properties of EnhancedGenesisAgent.execute_plan, checked under SpecSeq. *)
(***************************************************************************)
\* the loop is through with step idx
Handled(idx) == task_state[idx] \in {"done", "failed", "skipped"}

\* the steps with a loaded tool the loop is through with, in plan order
Recorded ==
    SelectSeq([k \in 1..Len(plan_steps) |-> k - 1],
              LAMBDA idx : task_state[idx] \in {"done", "failed"})

\* C24: Sequential executor.  The loop has a step in hand only when it is
\* through with every earlier step; steps_executed holds, in plan order, one
\* entry for each step with a loaded tool: {tool, result} when the call
\* returned, {tool, error} when it raised; final_results holds a tool name
\* only for calls that returned, with the result of such a call; no
\* exception leaves execute_plan, and at its return every step was handled,
\* the steps after a failure included.
C24_SequentialExecutor ==
    /\ pc # "raised"
    /\ \A earlier, idx \in Indices(plan_steps) :
           (earlier < idx /\ task_state[idx] # "none") => Handled(earlier)
    /\ Len(results.steps_executed) = Len(Recorded)
    /\ \A k \in DOMAIN Recorded :
           LET idx == Recorded[k]
               entry == results.steps_executed[k]
           IN  /\ entry.items[1] = JStr(plan_steps[idx + 1].tool_name)
               /\ task_state[idx] = "failed" => IsErrorEntry(entry)
               /\ task_state[idx] = "done" =>
                      entry = ResultEntry(plan_steps[idx + 1].tool_name, task_result[idx])
    /\ \A name \in DOMAIN results.final_results :
           \E idx \in Indices(plan_steps) :
               /\ plan_steps[idx + 1].tool_name = name
               /\ task_state[idx] = "done"
               /\ results.final_results[name] = task_result[idx]
    /\ pc = "returned" =>
           \A idx \in Indices(plan_steps) :
               /\ Handled(idx)
               /\ task_state[idx] = "skipped"
                      <=> plan_steps[idx + 1].tool_name \notin DOMAIN tools

\* execute_plan returned after the call of its first step raised, the call
\* of a later step returned and a step without a loaded tool was passed over
C24_Witness ==
    /\ pc = "returned"
    /\ Len(plan_steps) = 3
    /\ task_state[0] = "failed"
    /\ invocations[0] = 1
    /\ \E idx \in {1, 2} : task_state[idx] = "done"
    /\ \E idx \in {1, 2} : task_state[idx] = "skipped"
    /\ Len(results.steps_executed) = 2
    /\ plan_steps[1].tool_name \notin DOMAIN results.final_results

(***************************************************************************)
(* Properties of EnhancedContextManager, checked under SpecEntity.         *)
(***************************************************************************)
\* C26: Entity tracking.  When track_entity(c, type, v) has returned, on a
\* conversation with or without a stored context, get_context(c) has
\* last_entity = v, v among recent_entities and v in entity_history.
C26_EntityTracking ==
    entity_call.op = "track_entity" =>
        LET context == get_enhanced_context(enhanced_store, entity_call.conversation_id)
        IN  /\ context.last_entity = entity_call.entity
            /\ entity_call.entity \in Range(context.recent_entities)
            /\ entity_call.entity \in DOMAIN context.entity_history

====
